---- MODULE Spec2Model ----
(***************************************************************************)
(* VocalEase: the App component (src/App.tsx, lines 8-268) and the speech  *)
(* request orchestrator generateSpeech (src/App.tsx, lines 276-343).       *)
(*                                                                         *)
(* JavaScript strings are sequences of one-character strings, so that      *)
(* trim, includes, startsWith and slice are computed.  A value that may be *)
(* null or undefined is a sequence of length at most one: NULL is the      *)
(* absent value and Some(v) the present one.                               *)
(***************************************************************************)
EXTENDS Integers, Sequences, FiniteSets, Bags

\* ---------------------------------------------------------------- bounds
\* most generateSpeech invocations whose remote calls are outstanding
MaxInFlight == 2
\* longest text typed into the textarea
MaxTextLen == 1
\* longest text carried by a translation response
MaxTranslatedLen == 2
\* longest message of an error thrown by the remote service
MaxMsgLen == 3
\* most candidates in a synthesis response
MaxCands == 2
\* most content parts in a synthesis response, over all its candidates
MaxParts == 2

\* the textarea keeps at most this many characters
MaxChars == 500

\* --------------------------------------------------------------- values
NULL == <<>>
Some(v) == <<v>>

VoiceName == {"Kore", "Puck", "Charon", "Fenrir", "Zephyr"}

\* the voice buttons pressed: the initial voice and one other
Voices == {v \in VoiceName : v \in {"Zephyr", "Kore"}}
Language == {"en", "ml"}

\* ------------------------------------------------------ string methods
IsWhitespace(c) == c \in {" ", "\t", "\n"}

RECURSIVE trimStart(_)
trimStart(s) ==
    IF s # <<>> /\ IsWhitespace(Head(s)) THEN trimStart(Tail(s)) ELSE s

RECURSIVE trimEnd(_)
trimEnd(s) ==
    IF s # <<>> /\ IsWhitespace(s[Len(s)])
    THEN trimEnd(SubSeq(s, 1, Len(s) - 1))
    ELSE s

trim(s) == trimEnd(trimStart(s))

includes(s, sub) ==
    \E i \in 0..(Len(s) - Len(sub)) : SubSeq(s, i + 1, i + Len(sub)) = sub

startsWith(s, prefix) ==
    Len(s) >= Len(prefix) /\ SubSeq(s, 1, Len(prefix)) = prefix

slice(s, n) == SubSeq(s, 1, IF Len(s) < n THEN Len(s) ELSE n)

\* ------------------------------------------------------------ literals
BlockedMessage ==
    <<"T","h","e"," ","r","e","q","u","e","s","t"," ","w","a","s"," ","b",
      "l","o","c","k","e","d"," ","o","r"," ","r","e","t","u","r","n","e",
      "d"," ","n","o"," ","r","e","s","u","l","t","s","."," ","P","l","e",
      "a","s","e"," ","t","r","y"," ","a"," ","d","i","f","f","e","r","e",
      "n","t"," ","s","e","n","t","e","n","c","e",".">>

NoAudioMessage ==
    <<"T","h","e"," ","s","p","e","e","c","h"," ","e","n","g","i","n","e",
      " ","c","o","u","l","d"," ","n","o","t"," ","p","r","o","c","e","s",
      "s"," ","t","h","i","s"," ","t","e","x","t","."," ","P","l","e","a",
      "s","e"," ","t","r","y"," ","a","g","a","i","n"," ","w","i","t","h",
      " ","s","i","m","p","l","e","r"," ","w","o","r","d","i","n","g",".">>

HiccupMessage ==
    <<"G","e","m","i","n","i"," ","s","e","r","v","e","r"," ","h","a","d",
      " ","a"," ","m","o","m","e","n","t","a","r","y"," ","h","i","c","c",
      "u","p"," ","(","E","r","r","o","r"," ","5","0","0",")","."," ","P",
      "l","e","a","s","e"," ","t","a","p"," ","'","T","r","a","n","s","l",
      "a","t","e"," ","&"," ","S","p","e","a","k","'"," ","a","g","a","i",
      "n",".">>

ConnectionLostMessage ==
    <<"C","o","n","n","e","c","t","i","o","n"," ","l","o","s","t","."," ",
      "P","l","e","a","s","e"," ","t","r","y"," ","a","g","a","i","n",".">>

TranslatePrompt ==
    <<"T","r","a","n","s","l","a","t","e"," ","t","h","e"," ","f","o","l",
      "l","o","w","i","n","g"," ","E","n","g","l","i","s","h"," ","t","e",
      "x","t"," ","t","o"," ","n","a","t","u","r","a","l"," ","M","a","l",
      "a","y","a","l","a","m","."," ","O","u","t","p","u","t"," ","O","N",
      "L","Y"," ","t","h","e"," ","t","r","a","n","s","l","a","t","i","o",
      "n",","," ","n","o","t","h","i","n","g"," ","e","l","s","e",":"," ",
      "\"">>

ReadAloudPrefix ==
    <<"R","e","a","d"," ","t","h","e"," ","f","o","l","l","o","w","i","n",
      "g"," ","i","n"," ","M","a","l","a","y","a","l","a","m",":"," ">>

DecodeErrorMessage ==
    <<"T","h","e"," ","s","t","r","i","n","g"," ","t","o"," ","b","e"," ",
      "d","e","c","o","d","e","d"," ","i","s"," ","n","o","t"," ","c","o",
      "r","r","e","c","t","l","y"," ","e","n","c","o","d","e","d",".">>

B64Alphabet ==
    <<"A","B","C","D","E","F","G","H","I","J","K","L","M","N","O","P","Q",
      "R","S","T","U","V","W","X","Y","Z","a","b","c","d","e","f","g","h",
      "i","j","k","l","m","n","o","p","q","r","s","t","u","v","w","x","y",
      "z","0","1","2","3","4","5","6","7","8","9","+","/">>

AudioPrefix == <<"a","u","d","i","o","/">>
FiveHundred == <<"5","0","0">>
AudioL16 == <<"a","u","d","i","o","/","L","1","6">>
ImagePng == <<"i","m","a","g","e","/","p","n","g">>

\* ------------------------------------------------------------- errors
\* an Error object: the optional status of an API error and its message
Error(message) == [status |-> NULL, message |-> message]

\* a settled promise, or the outcome of a call that returns or throws
Return(v) == [ok |-> TRUE, value |-> Some(v), error |-> NULL]
Throw(e) == [ok |-> FALSE, value |-> NULL, error |-> Some(e)]

\* the messages of the errors of the remote service: none, or a 5 followed
\* by zeros ("5", "50", "500", ...)
TransportMessages ==
    {<<>>} \cup {<<"5">> \o [i \in 1..k |-> "0"] : k \in 0..(MaxMsgLen - 1)}

\* the errors ai.models.generateContent rejects with
TransportErrors ==
    [status : {NULL, Some(500), Some(429)}, message : TransportMessages]

\* ------------------------------------------- replies of the remote service
Blanks(k) == [i \in 1..k |-> " "]

\* the text typed by the user: blanks, or a letter after leading blanks
Texts ==
    {Blanks(k) : k \in 0..MaxTextLen}
    \cup {Blanks(k) \o <<"a">> : k \in 0..(MaxTextLen - 1)}

\* the text of a translation response: blanks, or a letter between blanks
TranslatedTexts ==
    {Blanks(k) : k \in 0..MaxTranslatedLen}
    \cup UNION {{Blanks(i) \o <<"m">> \o Blanks(j) : j \in 0..(MaxTranslatedLen - 1 - i)} :
                    i \in 0..(MaxTranslatedLen - 1)}

\* a translation response: its text getter is undefined or a string
TranslationReplies ==
    {Return([text |-> t]) :
        t \in {NULL} \cup {Some(s) : s \in TranslatedTexts}}
    \cup {Throw(e) : e \in TransportErrors}

TextPart == [text |-> Some(<<"o","k">>), inlineData |-> NULL]
InlinePart(mimeType, data) ==
    [text |-> NULL, inlineData |-> Some([mimeType |-> mimeType, data |-> data])]

\* the content parts a candidate is built from: text, an image, audio with
\* a payload, audio with an empty payload, audio with a malformed payload
Parts ==
    {TextPart,
     InlinePart(ImagePng, <<"Q","Q","=","=">>),
     InlinePart(AudioL16, <<"A","A","A","=">>),
     InlinePart(AudioL16, <<>>),
     InlinePart(AudioL16, <<"!">>)}

\* the candidate lists of at most n candidates with at most b parts in all
RECURSIVE CandidateLists(_, _)
CandidateLists(n, b) ==
    IF n = 0 THEN {<<>>}
    ELSE {<<>>} \cup
         UNION {{<<[content |-> [parts |-> ps]]>> \o rest :
                    ps \in [1..k -> Parts], rest \in CandidateLists(n - 1, b - k)} :
                k \in 0..b}

\* a synthesis response: candidates is undefined or a list of candidates
SynthesisReplies ==
    {Return([candidates |-> c]) :
        c \in {NULL} \cup {Some(cs) : cs \in CandidateLists(MaxCands, MaxParts)}}
    \cup {Throw(e) : e \in TransportErrors}

\* -------------------------------------------------------- generateSpeech
\* the two requests generateSpeech sends to ai.models.generateContent
TranslationCall(text) ==
    [model |-> "gemini-3-flash-preview",
     contents |-> TranslatePrompt \o text \o <<"\"">>,
     voiceName |-> NULL]

SynthesisCall(targetText, voiceName) ==
    [model |-> "gemini-2.5-flash-preview-tts",
     contents |-> targetText,
     voiceName |-> Some(voiceName)]

\* generateSpeech up to its first await: the invocation with its arguments,
\* its local targetText and the call it is waiting for
StartGenerateSpeech(text, voiceName, language) ==
    [pc |-> IF language = "ml" THEN "translate" ELSE "synthesize",
     text |-> text, voiceName |-> voiceName, language |-> language,
     targetText |-> text]

\* the request an invocation has sent and is waiting for
AwaitedCall(inv) ==
    IF inv.pc = "translate"
    THEN TranslationCall(inv.text)
    ELSE SynthesisCall(inv.targetText, inv.voiceName)

\* TargetAfterTranslation with the fallback text left without its instruction
TargetAfterTranslation_NoPrefix(text, reply) ==
    IF reply.ok
    THEN LET responseText == reply.value[1].text
             translated == IF responseText = NULL THEN NULL
                           ELSE Some(trim(responseText[1]))
         IN  IF translated # NULL /\ translated[1] # <<>>
             THEN translated[1]
             ELSE text
    ELSE text

\* targetText after the translation step, given how the call settled
TargetAfterTranslation(text, reply) ==
    IF reply.ok
    THEN LET responseText == reply.value[1].text
             translated == IF responseText = NULL THEN NULL
                           ELSE Some(trim(responseText[1]))
         IN  IF translated # NULL /\ translated[1] # <<>>
             THEN translated[1]
             ELSE text
    ELSE ReadAloudPrefix \o text

\* generateSpeech from the translation await to the synthesis await
AfterTranslation(inv, reply) ==
    [inv EXCEPT !.pc = "synthesize",
                !.targetText = TargetAfterTranslation(inv.text, reply)]

IsAudioPart(p) ==
    p.inlineData # NULL /\ startsWith(p.inlineData[1].mimeType, AudioPrefix)

\* find returning the last match instead of the first
RECURSIVE find_Last(_)
find_Last(parts) ==
    IF parts = <<>> THEN NULL
    ELSE IF IsAudioPart(parts[Len(parts)]) THEN Some(parts[Len(parts)])
    ELSE find_Last(SubSeq(parts, 1, Len(parts) - 1))

\* Array.prototype.find with the audio predicate: the first match or undefined
RECURSIVE find(_)
find(parts) ==
    IF parts = <<>> THEN NULL
    ELSE IF IsAudioPart(Head(parts)) THEN Some(Head(parts))
    ELSE find(Tail(parts))

\* ExtractAudio testing only for an undefined candidate list: an empty
\* list falls through to the lookup of the audio part
ExtractAudio_EmptyListUnchecked(response) ==
    IF response.candidates = NULL
    THEN Throw(Error(BlockedMessage))
    ELSE LET parts == IF response.candidates[1] = <<>> THEN <<>>
                      ELSE Head(response.candidates[1]).content.parts
             audioPart == find(parts)
             base64Audio == IF audioPart = NULL THEN NULL
                            ELSE Some(audioPart[1].inlineData[1].data)
         IN  IF base64Audio = NULL \/ base64Audio[1] = <<>>
             THEN Throw(Error(NoAudioMessage))
             ELSE Return(base64Audio[1])

RECURSIVE AllParts(_)
AllParts(candidates) ==
    IF candidates = <<>> THEN <<>>
    ELSE Head(candidates).content.parts \o AllParts(Tail(candidates))

\* ExtractAudio looking for the audio part in every candidate
ExtractAudio_AnyCandidate(response) ==
    IF response.candidates = NULL \/ response.candidates[1] = <<>>
    THEN Throw(Error(BlockedMessage))
    ELSE LET audioPart == find(AllParts(response.candidates[1]))
             base64Audio == IF audioPart = NULL THEN NULL
                            ELSE Some(audioPart[1].inlineData[1].data)
         IN  IF base64Audio = NULL \/ base64Audio[1] = <<>>
             THEN Throw(Error(NoAudioMessage))
             ELSE Return(base64Audio[1])

\* the body of the try block after the synthesis response has arrived
ExtractAudio(response) ==
    LET candidate == IF response.candidates = NULL \/ response.candidates[1] = <<>>
                     THEN NULL
                     ELSE Some(Head(response.candidates[1]))
    IN  IF candidate = NULL
        THEN Throw(Error(BlockedMessage))
        ELSE LET audioPart == find(candidate[1].content.parts)
                 base64Audio == IF audioPart = NULL THEN NULL
                                ELSE Some(audioPart[1].inlineData[1].data)
             IN  IF base64Audio = NULL \/ base64Audio[1] = <<>>
                 THEN Throw(Error(NoAudioMessage))
                 ELSE Return(base64Audio[1])

\* IsServerHiccup testing the status alone
IsServerHiccup_StatusOnly(error) == error.status = Some(500)

\* the condition of the catch block
IsServerHiccup(error) ==
    error.status = Some(500) \/ includes(error.message, FiveHundred)

\* the catch block: the error generateSpeech rejects with
CatchSynthesis(error) ==
    IF IsServerHiccup(error) THEN Error(HiccupMessage) ELSE error

\* how generateSpeech settles, given how the synthesis call settled
SynthesisResult(reply) ==
    IF reply.ok
    THEN LET r == ExtractAudio(reply.value[1])
         IN  IF r.ok THEN r ELSE Throw(CatchSynthesis(r.error[1]))
    ELSE Throw(CatchSynthesis(reply.error[1]))

\* --------------------------------------------------- services/audioUtils
B64Index(c) == CHOOSE i \in 0..63 : B64Alphabet[i + 1] = c

IsBase64(s) ==
    /\ Len(s) % 4 = 0
    /\ \A i \in 1..Len(s) :
          \/ \E j \in 1..64 : B64Alphabet[j] = s[i]
          \/ s[i] = "=" /\ i > Len(s) - 2 /\ s[Len(s)] = "="

\* the bytes of one group of four base64 characters
DecodeGroup(g) ==
    LET v(i) == IF g[i] = "=" THEN 0 ELSE B64Index(g[i])
        pad == Cardinality({i \in 3..4 : g[i] = "="})
        n == v(1) * 262144 + v(2) * 4096 + v(3) * 64 + v(4)
    IN  SubSeq(<<n \div 65536, (n \div 256) % 256, n % 256>>, 1, 3 - pad)

RECURSIVE DecodeGroups(_)
DecodeGroups(s) ==
    IF s = <<>> THEN <<>>
    ELSE DecodeGroup(SubSeq(s, 1, 4)) \o DecodeGroups(SubSeq(s, 5, Len(s)))

decodeBase64(base64) ==
    IF IsBase64(base64)
    THEN Return(DecodeGroups(base64))
    ELSE Throw(Error(DecodeErrorMessage))

le16(n) == <<n % 256, (n \div 256) % 256>>
le32(n) == <<n % 256, (n \div 256) % 256, (n \div 65536) % 256, (n \div 16777216) % 256>>

\* the 44-byte RIFF/WAVE header followed by the samples
createWavFile(pcmBytes) ==
    <<82, 73, 70, 70>> \o le32(36 + Len(pcmBytes)) \o <<87, 65, 86, 69>>
    \o <<102, 109, 116, 32>> \o le32(16) \o le16(1) \o le16(1)
    \o le32(24000) \o le32(24000 * 2) \o le16(2) \o le16(16)
    \o <<100, 97, 116, 97>> \o le32(Len(pcmBytes)) \o pcmBytes

\* URL.createObjectURL: a reference to the blob
createObjectURL(blob) == [blob |-> blob]

\* ------------------------------------------------------------------ state
VARIABLES
    text,              \* App: the content of the textarea
    selectedVoice,     \* App: the chosen voice
    selectedLanguage,  \* App: the chosen language
    status,            \* App: the AudioGenerationState
    pending,           \* the generateSpeech invocations awaited by handleGenerate
    gs,                \* one generateSpeech invocation observed on its own
    calls,             \* the requests gs has sent to the remote service
    translationReply,  \* how the translation call of gs settled
    synthesisReply,    \* how the synthesis call of gs settled
    result             \* how gs settled

appVars == <<text, selectedVoice, selectedLanguage, status, pending>>
gsVars == <<gs, calls, translationReply, synthesisReply, result>>
vars == <<text, selectedVoice, selectedLanguage, status, pending,
          gs, calls, translationReply, synthesisReply, result>>

InitialStatus ==
    [isGenerating |-> FALSE, audioUrl |-> NULL, error |-> NULL, rawBuffer |-> NULL]

IdleInvocation ==
    [pc |-> "idle", text |-> <<>>, voiceName |-> "Zephyr", language |-> "en",
     targetText |-> <<>>]

InitApp ==
    /\ text = <<>>
    /\ selectedVoice = "Zephyr"
    /\ selectedLanguage = "en"
    /\ status = InitialStatus
    /\ pending = EmptyBag

Init ==
    /\ InitApp
    /\ gs = IdleInvocation
    /\ calls = <<>>
    /\ translationReply = NULL
    /\ synthesisReply = NULL
    /\ result = NULL

\* -------------------------------------------------------------------- App
\* the updater handleGenerate passes to setStatus before the request
SetStatusRequesting(prev) ==
    [prev EXCEPT !.isGenerating = TRUE, !.error = NULL,
                 !.audioUrl = NULL, !.rawBuffer = NULL]

\* the status handleGenerate sets when the audio is ready
SetStatusReady(url, pcmBytes) ==
    [isGenerating |-> FALSE, audioUrl |-> Some(url),
     error |-> NULL, rawBuffer |-> Some(pcmBytes)]

\* SetStatusFailed leaving isGenerating as it was
SetStatusFailed_StillGenerating(prev, err) ==
    [prev EXCEPT !.error = Some(IF err.message # <<>> THEN err.message
                                ELSE ConnectionLostMessage)]

\* the updater of the catch block of handleGenerate
SetStatusFailed(prev, err) ==
    [prev EXCEPT !.isGenerating = FALSE,
                 !.error = Some(IF err.message # <<>> THEN err.message
                                ELSE ConnectionLostMessage)]

\* SetStatusLanguage clearing the audio URL but not the buffer
SetStatusLanguage_KeepsBuffer(prev) ==
    [prev EXCEPT !.audioUrl = NULL, !.error = NULL]

\* the updater of a language button
SetStatusLanguage(prev) ==
    [prev EXCEPT !.audioUrl = NULL, !.rawBuffer = NULL, !.error = NULL]

\* the try block of handleGenerate after the await, given how generateSpeech
\* settled: the URL and the samples, or the error that reaches the catch
TryBody(settled) ==
    IF settled.ok
    THEN LET decoded == decodeBase64(settled.value[1])
         IN  IF decoded.ok
             THEN LET pcmBytes == decoded.value[1]
                  IN  Return([url |-> createObjectURL(createWavFile(pcmBytes)),
                              pcmBytes |-> pcmBytes])
             ELSE Throw(decoded.error[1])
    ELSE Throw(settled.error[1])

\* handleGenerate after the await: the status it sets
Settle(prev, outcome) ==
    IF outcome.ok
    THEN SetStatusReady(outcome.value[1].url, outcome.value[1].pcmBytes)
    ELSE SetStatusFailed(prev, outcome.error[1])

\* the submit button is disabled while generating or while the text is blank
SubmitDisabled == status.isGenerating \/ trim(text) = <<>>

\* onChange of the textarea
SetText ==
    \E t \in Texts :
        /\ text' = slice(t, MaxChars)
        /\ UNCHANGED <<selectedVoice, selectedLanguage, status, pending, gsVars>>

\* onClick of a voice button
SetSelectedVoice ==
    \E v \in Voices :
        /\ selectedVoice' = v
        /\ UNCHANGED <<text, selectedLanguage, status, pending, gsVars>>

\* onClick of a language button
SelectLanguage ==
    \E l \in Language :
        /\ selectedLanguage' = l
        /\ status' = SetStatusLanguage(status)
        /\ UNCHANGED <<text, selectedVoice, pending, gsVars>>

\* handleGenerate up to the await of generateSpeech
HandleGenerate ==
    /\ ~SubmitDisabled
    /\ trim(text) # <<>>
    /\ BagCardinality(pending) < MaxInFlight
    /\ status' = SetStatusRequesting(status)
    /\ pending' = pending (+) SetToBag({StartGenerateSpeech(text, selectedVoice, selectedLanguage)})
    /\ UNCHANGED <<text, selectedVoice, selectedLanguage, gsVars>>

\* handleClear; URL.revokeObjectURL releases the blob in the browser, which
\* holds no state of the component
HandleClear ==
    /\ text' = <<>>
    /\ status' = InitialStatus
    /\ UNCHANGED <<selectedVoice, selectedLanguage, pending, gsVars>>

\* the translation call of a pending invocation settles
TranslationReturns ==
    /\ UNCHANGED <<text, selectedVoice, selectedLanguage, status, gsVars>>
    /\ \E inv \in {i \in BagToSet(pending) : i.pc = "translate"} :
          \E reply \in TranslationReplies :
              pending' = (pending (-) SetToBag({inv}))
                             (+) SetToBag({AfterTranslation(inv, reply)})

\* the ways generateSpeech settles once its synthesis call has settled
GenerateSpeechResults == {SynthesisResult(reply) : reply \in SynthesisReplies}

\* the ways the try block of handleGenerate ends
TryOutcomes == {TryBody(settled) : settled \in GenerateSpeechResults}

\* the synthesis call of a pending invocation settles: generateSpeech settles
\* and handleGenerate runs to its end
SynthesisReturns ==
    /\ UNCHANGED <<text, selectedVoice, selectedLanguage, gsVars>>
    /\ \E inv \in {i \in BagToSet(pending) : i.pc = "synthesize"} :
          /\ pending' = pending (-) SetToBag({inv})
          /\ \E outcome \in TryOutcomes : status' = Settle(status, outcome)

Next ==
    \/ SetText
    \/ SetSelectedVoice
    \/ SelectLanguage
    \/ HandleGenerate
    \/ HandleClear
    \/ TranslationReturns
    \/ SynthesisReturns

Spec == Init /\ [][Next]_vars

\* every remote call eventually returns or throws
LiveSpec ==
    Init /\ [][Next]_vars /\ WF_vars(TranslationReturns) /\ WF_vars(SynthesisReturns)

\* ------------------------------------------- generateSpeech on its own
InitGS ==
    /\ InitApp
    /\ \E t \in Texts, v \in Voices, l \in Language :
           gs = StartGenerateSpeech(t, v, l)
    /\ calls = <<AwaitedCall(gs)>>
    /\ translationReply = NULL
    /\ synthesisReply = NULL
    /\ result = NULL

GsTranslationReturns ==
    /\ gs.pc = "translate"
    /\ \E reply \in TranslationReplies :
        /\ gs' = AfterTranslation(gs, reply)
        /\ calls' = Append(calls, AwaitedCall(gs'))
        /\ translationReply' = Some(reply)
        /\ UNCHANGED <<appVars, synthesisReply, result>>

GsSynthesisReturns ==
    /\ gs.pc = "synthesize"
    /\ \E reply \in SynthesisReplies :
        /\ gs' = [gs EXCEPT !.pc = "done"]
        /\ synthesisReply' = Some(reply)
        /\ result' = Some(SynthesisResult(reply))
        /\ UNCHANGED <<appVars, calls, translationReply>>

NextGS ==
    \/ GsTranslationReturns
    \/ GsSynthesisReturns

SpecGS == InitGS /\ [][NextGS]_vars

\* ================================================================ claims
TtsModel == "gemini-2.5-flash-preview-tts"
FlashModel == "gemini-3-flash-preview"

\* the positions of the parts whose inline data has an audio MIME type
AudioPositions(parts) ==
    {i \in 1..Len(parts) :
        /\ parts[i].inlineData # NULL
        /\ Len(parts[i].inlineData[1].mimeType) >= 6
        /\ SubSeq(parts[i].inlineData[1].mimeType, 1, 6) = AudioPrefix}

FirstAudioPayload(parts) ==
    LET i == CHOOSE k \in AudioPositions(parts) : \A j \in AudioPositions(parts) : k <= j
    IN  parts[i].inlineData[1].data

\* s without its leading and trailing whitespace
Stripped(s) ==
    LET inked == {i \in 1..Len(s) : s[i] \notin {" ", "\t", "\n"}}
    IN  IF inked = {} THEN <<>>
        ELSE SubSeq(s, CHOOSE i \in inked : \A j \in inked : i <= j,
                       CHOOSE i \in inked : \A j \in inked : i >= j)

GsDone == gs.pc = "done"
SynthesisResolved == GsDone /\ synthesisReply[1].ok
HasNoCandidate ==
    SynthesisResolved /\ (synthesisReply[1].value[1].candidates = NULL
                          \/ synthesisReply[1].value[1].candidates[1] = <<>>)
HasCandidate == SynthesisResolved /\ ~HasNoCandidate
FirstCandidateParts == synthesisReply[1].value[1].candidates[1][1].content.parts

\* C1: the status never holds an error together with an audio URL or buffer
C1_ErrorExcludesAudio ==
    ~(status.error # NULL /\ (status.audioUrl # NULL \/ status.rawBuffer # NULL))

\* C2: at most one generateSpeech invocation is outstanding at any time
C2_AtMostOneInFlight == BagCardinality(pending) <= 1

\* C3: the status comes to hold audio or an error only by a step that
\* leaves Requesting (isGenerating true before the step, false after it)
C3_ResultOnlyOutOfRequesting ==
    [][(status' # status /\ (status'.audioUrl # NULL \/ status'.error # NULL))
           => (status.isGenerating /\ ~status'.isGenerating)]_vars

\* C4 (as stated): a synthesis error is replaced by the retry message exactly
\* when its status is 500, and is otherwise rejected unchanged
C4_HiccupIffStatus500 ==
    (GsDone /\ ~synthesisReply[1].ok) =>
        LET e == synthesisReply[1].error[1]
        IN  /\ ~result[1].ok
            /\ IF e.status = Some(500)
               THEN result[1].error[1].message = HiccupMessage
               ELSE result[1].error[1] = e

\* C4 (amended): a synthesis error is replaced by the retry message exactly
\* when its status is 500 or its message contains "500", and is otherwise
\* rejected unchanged; the errors generateSpeech raises itself are unchanged
C4_HiccupIffStatusOrMessage500 ==
    /\ (GsDone /\ ~synthesisReply[1].ok) =>
           LET e == synthesisReply[1].error[1]
           IN  /\ ~result[1].ok
               /\ IF e.status = Some(500) \/ includes(e.message, FiveHundred)
                  THEN /\ result[1].error[1].message = HiccupMessage
                       /\ result[1].error[1].message # e.message
                  ELSE result[1].error[1] = e
    /\ (SynthesisResolved /\ ~result[1].ok) =>
           result[1].error[1] \in {Error(BlockedMessage), Error(NoAudioMessage)}

C4_Witness ==
    /\ GsDone /\ ~synthesisReply[1].ok
    /\ synthesisReply[1].error[1].status = Some(429)
    /\ synthesisReply[1].error[1].message = FiveHundred
    /\ result[1].error[1].message = HiccupMessage

\* the text the synthesis call has to carry after the translation step
ExpectedTarget ==
    LET reply == translationReply[1]
    IN  IF ~reply.ok THEN ReadAloudPrefix \o gs.text
        ELSE IF reply.value[1].text # NULL /\ Stripped(reply.value[1].text[1]) # <<>>
             THEN Stripped(reply.value[1].text[1])
             ELSE gs.text

\* a synthesis response whose first candidate has a non-empty audio payload
HasUsableAudio ==
    /\ HasCandidate
    /\ AudioPositions(FirstCandidateParts) # {}
    /\ FirstAudioPayload(FirstCandidateParts) # <<>>

\* C5 (as stated): for 'ml', when the translation response carries text the
\* synthesis call carries that text
C5_SynthesizesResponseText ==
    (/\ gs.language = "ml"
     /\ translationReply # NULL
     /\ translationReply[1].ok
     /\ translationReply[1].value[1].text # NULL
     /\ translationReply[1].value[1].text[1] # <<>>)
        => calls[2].contents = translationReply[1].value[1].text[1]

\* C5 (amended): for 'ml' the translation call is issued first and alone;
\* once it has settled the synthesis call is issued, whatever the outcome,
\* with the trimmed translated text when that is non-empty, the original
\* text when the response has no text or only whitespace, and the original
\* text behind the read-aloud instruction when the call threw; generateSpeech
\* settles only after the synthesis call and returns whenever that call
\* delivers a usable audio payload
C5_TranslateThenSynthesize ==
    gs.language = "ml" =>
        /\ calls[1].model = FlashModel
        /\ calls[1].contents = TranslatePrompt \o gs.text \o <<"\"">>
        /\ translationReply = NULL => (Len(calls) = 1 /\ ~GsDone)
        /\ translationReply # NULL =>
              /\ Len(calls) = 2
              /\ calls[2].model = TtsModel
              /\ calls[2].voiceName = Some(gs.voiceName)
              /\ calls[2].contents = ExpectedTarget
        /\ GsDone => synthesisReply # NULL
        /\ (GsDone /\ HasUsableAudio) => result[1].ok

C5_Witness ==
    /\ gs.language = "ml" /\ GsDone
    /\ ~translationReply[1].ok
    /\ calls[2].contents = ReadAloudPrefix \o <<"a">>
    /\ result[1].ok

\* C6 (as stated): for 'en' there is no translation call and one synthesis
\* call with the input text and the voice; a first candidate with an audio
\* part makes generateSpeech return the payload of the first audio part
C6_ReturnsFirstAudioPayload ==
    gs.language = "en" =>
        /\ translationReply = NULL
        /\ Len(calls) = 1
        /\ calls[1].model = TtsModel
        /\ calls[1].contents = gs.text
        /\ calls[1].voiceName = Some(gs.voiceName)
        /\ (HasCandidate /\ AudioPositions(FirstCandidateParts) # {}) =>
               result[1] = Return(FirstAudioPayload(FirstCandidateParts))

\* C6 (amended): as C6, the payload being returned when it is non-empty;
\* an empty payload in the first audio part makes generateSpeech reject
C6_ReturnsFirstNonEmptyAudioPayload ==
    gs.language = "en" =>
        /\ translationReply = NULL
        /\ Len(calls) = 1
        /\ calls[1].model = TtsModel
        /\ calls[1].contents = gs.text
        /\ calls[1].voiceName = Some(gs.voiceName)
        /\ HasUsableAudio =>
               result[1] = Return(FirstAudioPayload(FirstCandidateParts))
        /\ (HasCandidate /\ AudioPositions(FirstCandidateParts) # {}
                /\ FirstAudioPayload(FirstCandidateParts) = <<>>) =>
               ~result[1].ok

C6_Witness ==
    /\ gs.language = "en" /\ HasCandidate
    /\ Len(FirstCandidateParts) = 2
    /\ AudioPositions(FirstCandidateParts) = {1, 2}
    /\ FirstCandidateParts[2].inlineData[1].data = <<"!">>
    /\ result[1] = Return(<<"A","A","A","=">>)

\* C7: a synthesis response without candidates makes generateSpeech reject
\* with a message containing "blocked" or "no results"
C7_NoCandidateRejects ==
    HasNoCandidate =>
        /\ ~result[1].ok
        /\ result[1].value = NULL
        /\ \/ includes(result[1].error[1].message, <<"b","l","o","c","k","e","d">>)
           \/ includes(result[1].error[1].message, <<"n","o"," ","r","e","s","u","l","t","s">>)

C7_Witness ==
    /\ HasNoCandidate
    /\ synthesisReply[1].value[1].candidates = Some(<<>>)
    /\ gs.language = "ml"
    /\ ~translationReply[1].ok
    /\ ~result[1].ok

\* C8: a first candidate without an audio part makes generateSpeech reject
\* with the could-not-process message, whatever the other candidates hold
C8_NoAudioPartRejects ==
    (HasCandidate /\ AudioPositions(FirstCandidateParts) = {}) =>
        /\ ~result[1].ok
        /\ result[1].value = NULL
        /\ result[1].error[1].message = NoAudioMessage

C8_Witness ==
    /\ HasCandidate
    /\ Len(synthesisReply[1].value[1].candidates[1]) = 2
    /\ Len(FirstCandidateParts) = 1
    /\ AudioPositions(FirstCandidateParts) = {}
    /\ AudioPositions(synthesisReply[1].value[1].candidates[1][2].content.parts) = {1}
    /\ result[1].error[1].message = NoAudioMessage

\* C9: once the status is Requesting it eventually has isGenerating false
\* with audio or an error set
C9_RequestSettles ==
    status.isGenerating
        ~> (~status.isGenerating /\ (status.audioUrl # NULL \/ status.error # NULL))

C9_Witness ==
    /\ ~status.isGenerating
    /\ status.error = Some(DecodeErrorMessage)
    /\ pending = EmptyBag

\* C10: audioUrl and rawBuffer are both null or both non-null
C10_UrlAndBufferTogether == (status.audioUrl = NULL) <=> (status.rawBuffer = NULL)

C10_Witness ==
    /\ status.audioUrl # NULL /\ status.rawBuffer # NULL
    /\ status.error # NULL
====
